---------------------------- MODULE Spec2Model ----------------------------
(***************************************************************************)
(* A model of the colorspace package (src/color.go): the conversions       *)
(* between color spaces, the per-space Lerp operators and the OKLCH gamut  *)
(* mapper GamutMappedLSRGB.                                                *)
(*                                                                         *)
(* Numbers.  The package computes in float32.  The model computes in       *)
(* fixed point: a real x is the integer x * Scale (Scale = 10^6), so one   *)
(* unit is 1e-6, the order of float32's resolution for values near 1.      *)
(* Hues are degrees in the same fixed point (360 degrees = 360 * Scale).   *)
(* A product of two fixed-point numbers does not fit TLC's 32-bit          *)
(* integers, so Mul splits its operands (MulAbs); Div is a long division.  *)
(* The library functions the package calls (math32.Sqrt, Cbrt, Sincos,     *)
(* Atan2, ms1.Interp, ms1.Clamp, ms3.MulMatVec) are computed, to the       *)
(* fixed-point resolution, by the operators of the same name.              *)
(*                                                                         *)
(* src/color.go holds two revisions of the package, one after the other.   *)
(* The model follows the first (lines 1-740) wherever its code is in the   *)
(* file.  Its CIELCH.Lerp hands the hue blend to ms1.InterpWrap, whose     *)
(* code is not in the file; the hue blend is therefore modelled from the   *)
(* second revision, which has it inline (lines 1193-1204).                 *)
(***************************************************************************)
EXTENDS Integers, Sequences, FiniteSets, TLC

-----------------------------------------------------------------------------
(* Fixed-point arithmetic (float32 arithmetic of the package).             *)

Scale == 1000 * 1000
\* The base the operands of a product are split at.
Limb == 10 * 100

Abs(x) == IF x < 0 THEN -x ELSE x

Sgn(x) == IF x < 0 THEN -1 ELSE 1

Min(a, b) == IF a < b THEN a ELSE b

Max(a, b) == IF a > b THEN a ELSE b

\* float32's +Inf, as a number above every finite number of the model.  The
\* operators below take finite arguments; what the code computes from +Inf
\* (+Inf, -Inf or NaN, by IEEE 754) is spelled out where it happens.
Inf == 1000 * Scale

\* a * b / Scale for a, b >= 0, rounded to the nearest unit.
MulAbs(a, b) ==
  (a \div Limb) * (b \div Limb)
  + ( (a \div Limb) * (b % Limb) + (a % Limb) * (b \div Limb)
      + ((a % Limb) * (b % Limb) + Limb \div 2) \div Limb + Limb \div 2 ) \div Limb

\* The float32 product a * b.
Mul(a, b) == Sgn(a) * Sgn(b) * MulAbs(Abs(a), Abs(b))

\* a * Scale / b for a >= 0, b > 0 (long division, truncated).
DivAbs(a, b) == ((a * Limb) \div b) * Limb + (((a * Limb) % b) * Limb) \div b

\* The float32 quotient a / b (b # 0).
Div(a, b) == Sgn(a) * Sgn(b) * DivAbs(Abs(a), Abs(b))

-----------------------------------------------------------------------------
(* The math library, to the fixed-point resolution.  An intermediate value *)
(* that is used more than once is the parameter of a helper operator.      *)

\* math32.Pi, and 180 / math32.Pi.
Pi == 3141593
RadToDeg == 57295780
FullTurn == 360 * Scale

Cube(y) == Mul(Mul(y, y), y)

\* The largest y in lo..hi-1 with y*y <= q (bisection); lo*lo <= q < hi*hi.
RECURSIVE SqrtSearch(_, _, _)
SqrtSearch(q, lo, hi) ==
  IF hi - lo <= 1 THEN lo
  ELSE IF MulAbs((lo + hi) \div 2, (lo + hi) \div 2) <= q
       THEN SqrtSearch(q, (lo + hi) \div 2, hi)
       ELSE SqrtSearch(q, lo, (lo + hi) \div 2)

\* m * sqrt(ra^2 + rb^2 + rc^2) for the ratios ra, rb, rc in [0, 1].
HypotScaled(m, ra, rb, rc) ==
  MulAbs(m, SqrtSearch(MulAbs(ra, ra) + MulAbs(rb, rb) + MulAbs(rc, rc), 0, 2 * Scale))

\* The length of (a, b, c) >= 0 whose largest component is m.
HypotOf(a, b, c, m) ==
  IF m = 0 THEN 0 ELSE HypotScaled(m, DivAbs(a, m), DivAbs(b, m), DivAbs(c, m))

\* math32.Sqrt(a*a + b*b + c*c).  float32 keeps the relative precision of the
\* squares of small numbers; fixed point does not, so the sum is taken
\* relative to the largest component m: m * sqrt((a/m)^2 + (b/m)^2 + (c/m)^2).
Hypot(a, b, c) == HypotOf(Abs(a), Abs(b), Abs(c), Max(Abs(a), Max(Abs(b), Abs(c))))

\* The largest y in lo..hi-1 with y^3 <= x (bisection).
RECURSIVE CbrtSearch(_, _, _)
CbrtSearch(x, lo, hi) ==
  IF hi - lo <= 1 THEN lo
  ELSE IF Cube((lo + hi) \div 2) <= x
       THEN CbrtSearch(x, (lo + hi) \div 2, hi)
       ELSE CbrtSearch(x, lo, (lo + hi) \div 2)

\* The cube root of x >= 0.  float32 keeps its relative precision for small
\* x; fixed point does not, so a small x is scaled: cbrt(x) = cbrt(1000 x) / 10.
RECURSIVE CbrtAbs(_)
CbrtAbs(x) ==
  IF x = 0 THEN 0
  ELSE IF x < Scale \div 1000 THEN CbrtAbs(1000 * x) \div 10
  ELSE CbrtSearch(x, 0, 4 * Scale)

\* math32.Cbrt: the cube root, of the sign of its argument.
Cbrt(x) == Sgn(x) * CbrtAbs(Abs(x))

\* x * (1 - x2/6 (1 - x2/20 (1 - x2/42 (1 - x2/72)))) for x2 = x^2.
SinHorner(x, x2) ==
  Mul(x, Scale - Mul(x2, Scale - Mul(x2, Scale - Mul(x2, Scale - x2 \div 72) \div 42) \div 20)
                   \div 6)

\* sin x for x in [0, pi/4] radians: x - x^3/3! + x^5/5! - x^7/7! + x^9/9!.
SinPoly(x) == SinHorner(x, Mul(x, x))

\* 1 - x2/2 (1 - x2/12 (1 - x2/30 (1 - x2/56))) for x2 = x^2.
CosHorner(x2) ==
  Scale - Mul(x2, Scale - Mul(x2, Scale - Mul(x2, Scale - x2 \div 56) \div 30) \div 12) \div 2

\* cos x for x in [0, pi/4] radians: 1 - x^2/2! + x^4/4! - x^6/6! + x^8/8!.
CosPoly(x) == CosHorner(Mul(x, x))

\* <<sin, cos>> of r degrees, r in [0, 90]: above 45 degrees by the
\* complement, sin r = cos (90 - r).
SincosQuadrant(r) ==
  IF r <= 45 * Scale
  THEN << SinPoly(Mul(r, Pi) \div 180), CosPoly(Mul(r, Pi) \div 180) >>
  ELSE << CosPoly(Mul(90 * Scale - r, Pi) \div 180), SinPoly(Mul(90 * Scale - r, Pi) \div 180) >>

\* <<sin, cos>> of an angle in quadrant quad from p, the pair of its
\* remainder in the first quadrant.
SincosTurn(quad, p) ==
  CASE quad = 0 -> << p[1], p[2] >>
    [] quad = 1 -> << p[2], -p[1] >>
    [] quad = 2 -> << -p[1], -p[2] >>
    [] OTHER    -> << -p[2], p[1] >>

\* math32.Sincos(h * math32.Pi / 180) for a hue h in degrees: <<sin, cos>>.
\* The argument is reduced to the first quadrant in degrees.
Sincos(h) ==
  SincosTurn((h % FullTurn) \div (90 * Scale), SincosQuadrant((h % FullTurn) % (90 * Scale)))

\* u (1 - u2/3 + u2^2/5 - ... + u2^6/13) for u2 = u^2.
AtanHorner(u, u2) ==
  Mul(u, Scale - Mul(u2, Scale \div 3 - Mul(u2, Scale \div 5 - Mul(u2, Scale \div 7
         - Mul(u2, Scale \div 9 - Mul(u2, Scale \div 11 - Mul(u2, Scale \div 13)))))))

\* atan u for |u| <= tan(pi/8): u - u^3/3 + u^5/5 - ... + u^13/13.
AtanSeries(u) == AtanHorner(u, Mul(u, u))

\* atan t for t in [0, 1]; above tan(pi/8) it is pi/4 + atan((t-1)/(t+1)).
AtanUnit(t) ==
  (IF t > 414214 THEN Pi \div 4 ELSE 0)
  + AtanSeries(IF t > 414214 THEN Div(t - Scale, t + Scale) ELSE t)

\* atan(ay / ax) in [0, pi/2] for ay, ax >= 0; 0 for ay = ax = 0.
AtanFirst(ay, ax) ==
  IF ax = 0 /\ ay = 0 THEN 0
  ELSE IF ay <= ax THEN AtanUnit(DivAbs(ay, ax))
  ELSE Pi \div 2 - AtanUnit(DivAbs(ax, ay))

\* The angle th of the first quadrant, placed in the quadrant of (x, y).
AtanPlace(y, x, th) ==
  IF x >= 0 THEN Sgn(y) * th
  ELSE IF y >= 0 THEN Pi - th
  ELSE th - Pi

\* math32.Atan2(y, x) in radians, in (-pi, pi]; Atan2(0, 0) = 0.
Atan2(y, x) == AtanPlace(y, x, AtanFirst(Abs(y), Abs(x)))

-----------------------------------------------------------------------------
(* Constants and the package-level matrices (row major).                   *)

undefinedHue == 0

linSRGBToXYZ == << 412391, 357584, 180481,
                   212639, 715169,  72192,
                    19331, 119195, 950532 >>

xyzToLinSRGB == << 3240970, -1537383, -498611,
                   -969244,  1875968,   41555,
                     55630,  -203977, 1056972 >>

xyzToLMS == << 819022, 361906, -128874,
                32984, 929287,   36145,
                48177, 264240,  633548 >>

lmsToOKLAB == <<  210454,   793618,   -4072,
                 1977999, -2428592,  450594,
                   25904,   782772, -808676 >>

lmsToXYZ == << 1226880, -557815,  281391,
                -40576, 1112287,  -71711,
                -76373, -421493, 1586924 >>

oklabToLMS == << 1000000,  396338,   215804,
                 1000000, -105561,   -63854,
                 1000000,  -89484, -1291486 >>

\* d50 = IlluminantD50(1): (0.3457 / 0.3585, 1, (1 - 0.3457 - 0.3585) / 0.3585).
d50 == << 964296, Scale, 825105 >>

\* The package-level variables after initialization.
Package ==
  [linSRGBToXYZ |-> linSRGBToXYZ, xyzToLinSRGB |-> xyzToLinSRGB,
   xyzToLMS |-> xyzToLMS, lmsToOKLAB |-> lmsToOKLAB,
   lmsToXYZ |-> lmsToXYZ, oklabToLMS |-> oklabToLMS, d50 |-> d50]

\* MulMatVec with the matrix read column by column.
MulMatVec_Transposed(m, v) ==
  << Mul(m[1], v[1]) + Mul(m[4], v[2]) + Mul(m[7], v[3]),
     Mul(m[2], v[1]) + Mul(m[5], v[2]) + Mul(m[8], v[3]),
     Mul(m[3], v[1]) + Mul(m[6], v[2]) + Mul(m[9], v[3]) >>

\* ms3.MulMatVec: the matrix m (row major) times the vector v.
MulMatVec(m, v) ==
  << Mul(m[1], v[1]) + Mul(m[2], v[2]) + Mul(m[3], v[3]),
     Mul(m[4], v[1]) + Mul(m[5], v[2]) + Mul(m[6], v[3]),
     Mul(m[7], v[1]) + Mul(m[8], v[2]) + Mul(m[9], v[3]) >>

\* ms1.Clamp: v limited to [lo, hi].
Clamp(v, lo, hi) == IF v < lo THEN lo ELSE IF v > hi THEN hi ELSE v

\* Interp with the sign of x slipped in the difference.
Interp_SignSlip(x, y, a) == x + Mul(a, y + x)

\* ms1.Interp: the linear interpolation from x (a = 0) to y (a = 1).
Interp(x, y, a) == x + Mul(a, y - x)

-----------------------------------------------------------------------------
(* Conversions.  A color is a record with the fields of its Go struct.     *)

\* The struct literals OKLAB{L, A, B} (CIELAB alike), CIEXYZ{X, Y, Z} and
\* LSRGB{R, G, B} (SRGB alike) of a vector t.
LAB(t) == [L |-> t[1], A |-> t[2], B |-> t[3]]
XYZ(t) == [X |-> t[1], Y |-> t[2], Z |-> t[3]]
RGB(t) == [R |-> t[1], G |-> t[2], B |-> t[3]]

LSRGB_CIEXYZ(c) == XYZ(MulMatVec(linSRGBToXYZ, <<c.R, c.G, c.B>>))

CIEXYZ_LSRGB(c) == RGB(MulMatVec(xyzToLinSRGB, <<c.X, c.Y, c.Z>>))

\* The element-wise cube root and cube of CIEXYZ.OKLAB and OKLAB.CIEXYZ.
CbrtElem(w) == << Cbrt(w[1]), Cbrt(w[2]), Cbrt(w[3]) >>
CubeElem(w) == << Cube(w[1]), Cube(w[2]), Cube(w[3]) >>

CIEXYZ_OKLAB(c) ==
  LAB(MulMatVec(lmsToOKLAB, CbrtElem(MulMatVec(xyzToLMS, <<c.X, c.Y, c.Z>>))))

OKLAB_CIEXYZ(c) ==
  XYZ(MulMatVec(lmsToXYZ, CubeElem(MulMatVec(oklabToLMS, <<c.L, c.A, c.B>>))))

\* The achromatic cutoff of OKLAB.OKLCH (eps = 0.000004).
epsOKLCH == 4

\* OKLAB.OKLCH with the chroma of an achromatic color forced to 0.
OKLCH_Of_ZeroChroma(L, chroma, hue) ==
  [L |-> L, C |-> IF chroma <= 4 THEN 0 ELSE chroma,
   H |-> IF chroma <= 4 THEN 0
         ELSE IF hue < 0 THEN hue + 360 * Scale ELSE hue]

\* The return statement of OKLAB.OKLCH for the chroma and the hue (degrees,
\* as Atan2 gives it) computed before it.
OKLCH_Of(L, chroma, hue) ==
  [L |-> L, C |-> chroma,
   H |-> IF chroma <= epsOKLCH THEN undefinedHue
         ELSE IF hue < 0 THEN hue + FullTurn ELSE hue]

OKLAB_OKLCH(c) == OKLCH_Of(c.L, Hypot(c.A, c.B, 0), Mul(Atan2(c.B, c.A), RadToDeg))

\* The return statement of OKLCH.OKLAB for sc = <<sin, cos>> of the hue.
OKLAB_Of(c, sc) == [L |-> c.L, A |-> Mul(c.C, sc[2]), B |-> Mul(c.C, sc[1])]

OKLCH_OKLAB(c) == OKLAB_Of(c, Sincos(c.H))

\* The achromatic cutoff of CIELAB.CIELCH (eps = 0.0015).
epsCIELCH == 1500

\* The return statement of CIELAB.CIELCH.
CIELCH_Of(L, chroma, hue) ==
  [L |-> L, C |-> chroma,
   H |-> IF chroma <= epsCIELCH THEN undefinedHue
         ELSE IF hue < 0 THEN hue + FullTurn ELSE hue]

CIELAB_CIELCH(c) == CIELCH_Of(c.L, Hypot(c.A, c.B, 0), Mul(Atan2(c.B, c.A), RadToDeg))

\* OKLAB.DeltaE: the Euclidean distance of two OKLAB colors.
DeltaE(reference, sample) ==
  Hypot(reference.L - sample.L, reference.A - sample.A, reference.B - sample.B)

LSRGB_InGamut(c) ==
  c.R <= Scale /\ c.G <= Scale /\ c.B <= Scale /\ c.R >= 0 /\ c.G >= 0 /\ c.B >= 0

LSRGB_ClipToGamut(c) ==
  [R |-> Clamp(c.R, 0, Scale), G |-> Clamp(c.G, 0, Scale), B |-> Clamp(c.B, 0, Scale)]

\* wrapHue: h brought into [0, 360) by steps of 360.
RECURSIVE wrapHue(_)
wrapHue(h) ==
  IF h < 0 THEN wrapHue(h + FullTurn)
  ELSE IF h >= FullTurn THEN wrapHue(h - FullTurn)
  ELSE h

-----------------------------------------------------------------------------
(* Interpolation.                                                          *)

\* The achromatic ("powerless hue") cutoff of CIELCH.Lerp (eps = 0.000004).
epsLerp == 4

\* The hue difference brought to the shorter arc.
Hdelta(d) ==
  IF d > 180 * Scale THEN d - FullTurn
  ELSE IF d < -180 * Scale THEN d + FullTurn
  ELSE d

\* The blended hue H brought back by one turn at most.
HueNormalize(H) ==
  IF H > FullTurn THEN H - FullTurn
  ELSE IF H < 0 THEN H + FullTurn
  ELSE H

\* The hue blend of CIELCH.Lerp along the shorter arc (hues in degrees).
HueBlend(fromH, toH, a) == HueNormalize(fromH + Mul(a, Hdelta(toH - fromH)))

\* CIELCH.Lerp with the chroma taken from the blend of the Cartesian forms
\* of the endpoints (the chord between them) instead of the chromas.
LerpPowerless_ChordChroma(f, t, a, fromPowerless, toPowerless) ==
  IF fromPowerless /\ toPowerless
  THEN [L |-> Interp(f.L, t.L, a), C |-> 0, H |-> undefinedHue]
  ELSE [L |-> Interp(f.L, t.L, a),
        C |-> Hypot(Interp(OKLCH_OKLAB(f).A, OKLCH_OKLAB(t).A, a),
                    Interp(OKLCH_OKLAB(f).B, OKLCH_OKLAB(t).B, a), 0),
        H |-> HueBlend(IF fromPowerless /\ ~toPowerless THEN t.H ELSE f.H,
                       IF toPowerless /\ ~fromPowerless THEN f.H ELSE t.H, a)]

\* CIELCH.Lerp without the adoption of the other endpoint's hue.
LerpPowerless_NoAdopt(f, t, a, fromPowerless, toPowerless) ==
  IF fromPowerless /\ toPowerless
  THEN [L |-> Interp(f.L, t.L, a), C |-> 0, H |-> undefinedHue]
  ELSE [L |-> Interp(f.L, t.L, a),
        C |-> Interp(f.C, t.C, a),
        H |-> HueBlend(f.H, t.H, a)]

\* CIELCH.Lerp once the two powerless tests are made.
LerpPowerless(f, t, a, fromPowerless, toPowerless) ==
  IF fromPowerless /\ toPowerless
  THEN [L |-> Interp(f.L, t.L, a), C |-> 0, H |-> undefinedHue]
  ELSE [L |-> Interp(f.L, t.L, a),
        C |-> Interp(f.C, t.C, a),
        H |-> HueBlend(IF fromPowerless /\ ~toPowerless THEN t.H ELSE f.H,
                       IF toPowerless /\ ~fromPowerless THEN f.H ELSE t.H, a)]

CIELCH_Lerp(f, t, a) == LerpPowerless(f, t, a, f.C < epsLerp, t.C < epsLerp)

OKLCH_Lerp(f, t, a) == CIELCH_Lerp(f, t, a)

CIELAB_Lerp(f, t, a) ==
  [L |-> Interp(f.L, t.L, a), A |-> Interp(f.A, t.A, a), B |-> Interp(f.B, t.B, a)]

OKLAB_Lerp(f, t, a) ==
  [L |-> Interp(f.L, t.L, a), A |-> Interp(f.A, t.A, a), B |-> Interp(f.B, t.B, a)]

CIEXYZ_Lerp(f, t, a) ==
  [X |-> Interp(f.X, t.X, a), Y |-> Interp(f.Y, t.Y, a), Z |-> Interp(f.Z, t.Z, a)]

LSRGB_Lerp(f, t, a) ==
  [R |-> Interp(f.R, t.R, a), G |-> Interp(f.G, t.G, a), B |-> Interp(f.B, t.B, a)]

SRGB_Lerp(f, t, a) ==
  [R |-> Interp(f.R, t.R, a), G |-> Interp(f.G, t.G, a), B |-> Interp(f.B, t.B, a)]

-----------------------------------------------------------------------------
(* Inputs.  Each list holds sample values; the bound beside it says how    *)
(* many of them, from the front, the model draws from.                     *)

Take(seq, n) == {seq[i] : i \in 1..Min(n, Len(seq))}

\* Interpolation parameters v (halves, so that v * d is exact for even d).
VVals == << 0, Scale \div 2, Scale, (3 * Scale) \div 2, -(Scale \div 2), 2 * Scale >>
NumV == 4

\* Lightness, chroma and hue of the cylindrical samples.  The chromas lie
\* around the cutoffs: 0.000004 (OKLAB.OKLCH, CIELCH.Lerp), 0.0015 (CIELAB.CIELCH).
LVals == << 200000, 800000, 500000, 1000000 >>
NumL == 2
CVals == << 0, 2, 4, 300000, 6, 100000, 1500 >>
NumC == 4
HVals == << 0, 10 * Scale, 350 * Scale, 180 * Scale, 90 * Scale, 200 * Scale, 270 * Scale >>
NumH == 5

LCHSamples ==
  {[L |-> l, C |-> c, H |-> h] : l \in Take(LVals, NumL), c \in Take(CVals, NumC),
                                 h \in Take(HVals, NumH)}

\* Cartesian samples, as <<x, y, z>>.
XYZVals == << <<0, 0, 0>>, <<Scale, 0, 0>>, <<200000, -300000, 400000>>,
              <<Scale, Scale, Scale>>, <<600000, 2, -4>>, <<-100000, 1200000, 500000>> >>
NumXYZ == 4

\* OKLAB / CIELAB samples for the polar conversions: on the axes (where the
\* chroma is |A| or |B|), 3-4-5 multiples, and chromas around the cutoffs.
LabVals == << <<500000, 0, 0>>, <<500000, 4, 0>>, <<500000, 1000, 0>>, <<500000, 0, -1500>>,
              <<500000, -300000, 400000>>, <<500000, 6, 0>>, <<500000, 300000, -1>>,
              <<500000, 0, 2>>, <<500000, -1502, 0>>, <<500000, -3, -4>>,
              <<500000, 200000, -200000>>, <<500000, 0, 1502>> >>
NumLab == 10

\* Arguments of wrapHue.
WrapVals == << 0, -1, FullTurn, 725 * Scale, -FullTurn, FullTurn - 1, -900 * Scale, 90 * Scale >>
NumWrap == 6

\* OKLCH inputs of the gamut mapper.  The lightness stays away from 0, where
\* the cube root is steep and fixed point is coarser than float32.
GLVals == << 600000, 1200000, 700000, -100000, 300000, 900000, 50 * Scale >>
NumGL == 4
GCVals == << 0, 2, 100000, 400000, Inf, 250000, 150000, 320000 >>
NumGC == 5
GHVals == << 0, 30 * Scale, 264 * Scale, 145 * Scale, 90 * Scale, 330 * Scale >>
NumGH == 4

GamutInputs ==
  {[L |-> l, C |-> c, H |-> h] : l \in Take(GLVals, NumGL), c \in Take(GCVals, NumGC),
                                 h \in Take(GHVals, NumGH)}

-----------------------------------------------------------------------------
(* State.  A call of a pure function is one step that records the call:    *)
(* op (the function), from / to / v (its arguments), ret (its result).     *)
(* src is << c >> when `from` is the result of converting the CIELAB /     *)
(* OKLAB color c, and << >> otherwise.  The gamut mapper runs              *)
(* step by step: pc is its position, the other variables are its locals    *)
(* (named as in GamutMappedLSRGB), iter counts the loop iterations and     *)
(* path names the return statement taken.                                  *)
(* For calls that run concurrently, pkg is the package-level variables,    *)
(* which every goroutine shares, and gor[g] is the call of goroutine g:    *)
(* its position pc, its arguments and its locals, and beside them alone,   *)
(* the result the function gives for these arguments when run alone.       *)

VARIABLES op, from, to, v, ret, src,
          pc, origin, current, clipped, E, cmin, cmax, minInGamut, iter, path,
          pkg, gor

vars == << op, from, to, v, ret, src,
           pc, origin, current, clipped, E, cmin, cmax, minInGamut, iter, path,
           pkg, gor >>

callVars == << op, from, to, v, ret, src >>
gamutVars == << pc, origin, current, clipped, E, cmin, cmax, minInGamut, iter, path >>
concVars == << pkg, gor >>

None == "none"

\* The goroutines that call into the package, and a goroutine before its call.
Goroutines == {"g1", "g2"}

IdleGoroutine ==
  [call |-> None, pc |-> "idle", c1 |-> None, c2 |-> None, a |-> 0,
   o1 |-> None, o2 |-> None, lch |-> None, lab |-> None, clipped |-> None,
   cmin |-> 0, cmax |-> 0, minInGamut |-> FALSE, mapped |-> None,
   ret |-> None, alone |-> None, overlapped |-> FALSE]

Init ==
  /\ op = None /\ from = None /\ to = None /\ v = 0 /\ ret = None /\ src = << >>
  /\ pc = "idle" /\ origin = None /\ current = None /\ clipped = None
  /\ E = 0 /\ cmin = 0 /\ cmax = 0 /\ minInGamut = FALSE /\ iter = 0 /\ path = None
  /\ pkg = Package /\ gor = [g \in Goroutines |-> IdleGoroutine]

\* A call of a pure function f(a) or f(a, b, c): one step that records it.
Call(name, a, b, c, r, s) ==
  /\ pc = "idle"
  /\ op' = name /\ from' = a /\ to' = b /\ v' = c /\ ret' = r /\ src' = s
  /\ UNCHANGED << gamutVars, concVars >>

-----------------------------------------------------------------------------
(* The calls of the interpolation engine and of the polar conversions.     *)

CallSRGBLerp ==
  /\ op = None
  /\ \E f \in Take(XYZVals, NumXYZ), t \in Take(XYZVals, NumXYZ), a \in Take(VVals, NumV) :
       Call("SRGB.Lerp", RGB(f), RGB(t), a, SRGB_Lerp(RGB(f), RGB(t), a), << >>)

CallLSRGBLerp ==
  /\ op = None
  /\ \E f \in Take(XYZVals, NumXYZ), t \in Take(XYZVals, NumXYZ), a \in Take(VVals, NumV) :
       Call("LSRGB.Lerp", RGB(f), RGB(t), a, LSRGB_Lerp(RGB(f), RGB(t), a), << >>)

CallCIEXYZLerp ==
  /\ op = None
  /\ \E f \in Take(XYZVals, NumXYZ), t \in Take(XYZVals, NumXYZ), a \in Take(VVals, NumV) :
       Call("CIEXYZ.Lerp", XYZ(f), XYZ(t), a, CIEXYZ_Lerp(XYZ(f), XYZ(t), a), << >>)

CallCIELABLerp ==
  /\ op = None
  /\ \E f \in Take(XYZVals, NumXYZ), t \in Take(XYZVals, NumXYZ), a \in Take(VVals, NumV) :
       Call("CIELAB.Lerp", LAB(f), LAB(t), a, CIELAB_Lerp(LAB(f), LAB(t), a), << >>)

CallOKLABLerp ==
  /\ op = None
  /\ \E f \in Take(XYZVals, NumXYZ), t \in Take(XYZVals, NumXYZ), a \in Take(VVals, NumV) :
       Call("OKLAB.Lerp", LAB(f), LAB(t), a, OKLAB_Lerp(LAB(f), LAB(t), a), << >>)

CallCIELCHLerp ==
  /\ op = None
  /\ \E f \in LCHSamples, t \in LCHSamples, a \in Take(VVals, NumV) :
       Call("CIELCH.Lerp", f, t, a, CIELCH_Lerp(f, t, a), << >>)

CallOKLCHLerp ==
  /\ op = None
  /\ \E f \in LCHSamples, t \in LCHSamples, a \in Take(VVals, NumV) :
       Call("OKLCH.Lerp", f, t, a, OKLCH_Lerp(f, t, a), << >>)

CallOKLABOKLCH ==
  /\ op = None
  /\ \E c \in Take(LabVals, NumLab) :
       Call("OKLAB.OKLCH", LAB(c), None, 0, OKLAB_OKLCH(LAB(c)), << >>)

CallCIELABCIELCH ==
  /\ op = None
  /\ \E c \in Take(LabVals, NumLab) :
       Call("CIELAB.CIELCH", LAB(c), None, 0, CIELAB_CIELCH(LAB(c)), << >>)

\* c.OKLCH().Lerp(to, v) as LerpOKLCH composes them: the Lerp of the color the
\* conversion just returned.
CallOKLCHLerpOfConverted ==
  /\ op = "OKLAB.OKLCH"
  /\ \E t \in LCHSamples, a \in Take(VVals, NumV) :
       Call("OKLCH.Lerp", ret, t, a, OKLCH_Lerp(ret, t, a), << from >>)

\* c.CIELCH().Lerp(to, v).
CallCIELCHLerpOfConverted ==
  /\ op = "CIELAB.CIELCH"
  /\ \E t \in LCHSamples, a \in Take(VVals, NumV) :
       Call("CIELCH.Lerp", ret, t, a, CIELCH_Lerp(ret, t, a), << from >>)

CallWrapHue ==
  /\ op = None
  /\ \E h \in Take(WrapVals, NumWrap) :
       Call("wrapHue", h, None, 0, wrapHue(h), << >>)

NextLerp ==
  \/ CallSRGBLerp
  \/ CallLSRGBLerp
  \/ CallCIEXYZLerp
  \/ CallCIELABLerp
  \/ CallOKLABLerp
  \/ CallCIELCHLerp
  \/ CallOKLCHLerp
  \/ CallOKLABOKLCH
  \/ CallCIELABCIELCH
  \/ CallOKLCHLerpOfConverted
  \/ CallCIELCHLerpOfConverted
  \/ CallWrapHue

SpecLerp == Init /\ [][NextLerp]_vars

-----------------------------------------------------------------------------
(* The gamut mapper, OKLCH.GamutMappedLSRGB, step by step.                 *)

\* The thresholds of GamutMappedLSRGB: JND = 0.02, eps = 0.0001.
JND == 20000
eps == 100

\* c.OKLAB().CIEXYZ().LSRGB() of an OKLCH color c.
OKLCH_LSRGB(c) == CIEXYZ_LSRGB(OKLAB_CIEXYZ(OKLCH_OKLAB(c)))

\* c.CIEXYZ().OKLAB() of an LSRGB color c.
LSRGB_OKLAB(c) == CIEXYZ_OKLAB(LSRGB_CIEXYZ(c))

\* The guard with the upper limit of a lightness in percent.
LightnessOutOfRange_Percent(c) == c.L < 0 \/ c.L > 100 * Scale

\* The guard of the early return for a lightness out of range.
LightnessOutOfRange(c) == c.L < 0 \/ c.L > Scale

\* The entry with L outside [0, 1]: the early return.
GamutLightnessReturn ==
  /\ pc = "idle" /\ op = None
  /\ \E c \in GamutInputs :
       /\ LightnessOutOfRange(c)
       /\ origin' = c
       /\ ret' = [L |-> Min(Max(c.L, 0), Scale), C |-> 0, H |-> 0]
  /\ op' = "OKLCH.GamutMappedLSRGB" /\ pc' = "done" /\ path' = "lightness"
  /\ UNCHANGED << concVars, from, to, v, src, current, clipped, E, cmin, cmax, minInGamut, iter >>

\* The entry with L in [0, 1]: the clip test, which returns the clipped color
\* when it is within JND of the input, and starts the chroma search otherwise.
\* (A local computed once is bound by \E over the set of its one value.)
GamutClipTest ==
  /\ pc = "idle" /\ op = None
  /\ \E c \in GamutInputs :
       /\ ~LightnessOutOfRange(c) /\ c.C # Inf
       /\ \E clip \in {LSRGB_ClipToGamut(OKLCH_LSRGB(c))} :
          \E clipLab \in {LSRGB_OKLAB(clip)} :
          \E dE \in {DeltaE(OKLCH_OKLAB(c), clipLab)} :
            /\ origin' = c /\ current' = c /\ clipped' = clip /\ E' = dE
            /\ IF dE < JND
               THEN /\ ret' = OKLAB_OKLCH(clipLab)
                    /\ pc' = "done" /\ path' = "clip"
                    /\ UNCHANGED << cmin, cmax, minInGamut >>
               ELSE /\ cmin' = 0 /\ cmax' = c.C /\ minInGamut' = TRUE
                    /\ pc' = "loop"
                    /\ UNCHANGED << ret, path >>
  /\ op' = "OKLCH.GamutMappedLSRGB"
  /\ UNCHANGED << concVars, from, to, v, src, iter >>

\* Half the width of the search interval instead of its midpoint.
Midpoint_HalfWidth == Mul(Scale \div 2, cmax - cmin)

\* chroma := 0.5 * (cmin + cmax), the midpoint of the search interval.
Midpoint == Mul(Scale \div 2, cmin + cmax)

\* An iteration whose candidate is in gamut while the lower bound is too:
\* the lower bound is raised.
GamutIterInGamut ==
  /\ pc = "loop" /\ cmax # Inf /\ cmax - cmin > eps
  /\ \E chroma \in {Midpoint} :
     \E currentRGB \in {OKLCH_LSRGB([current EXCEPT !.C = chroma])} :
       /\ minInGamut /\ LSRGB_InGamut(currentRGB)
       /\ current' = [current EXCEPT !.C = chroma]
       /\ cmin' = chroma
       /\ minInGamut' = LSRGB_InGamut(OKLCH_LSRGB([L |-> current.L, C |-> chroma,
                                                   H |-> current.H]))
  /\ iter' = iter + 1
  /\ UNCHANGED << concVars, callVars, pc, origin, clipped, E, cmax, path >>

\* The iteration that clips its candidate, lowering the upper bound whenever
\* it does not return.
GamutIterClip_LowersOnly ==
  /\ pc = "loop" /\ cmax # Inf /\ cmax - cmin > eps
  /\ \E chroma \in {Midpoint} :
     \E currentRGB \in {OKLCH_LSRGB([current EXCEPT !.C = chroma])} :
     \E clip \in {LSRGB_ClipToGamut(currentRGB)} :
     \E clipLab \in {LSRGB_OKLAB(clip)} :
     \E dE \in {DeltaE(clipLab, OKLCH_OKLAB([current EXCEPT !.C = chroma]))} :
       /\ ~(minInGamut /\ LSRGB_InGamut(currentRGB))
       /\ current' = [current EXCEPT !.C = chroma]
       /\ clipped' = clip /\ E' = dE
       /\ \/ /\ dE < JND /\ JND - dE < eps
             /\ ret' = OKLAB_OKLCH(clipLab)
             /\ pc' = "done" /\ path' = "search"
             /\ UNCHANGED << cmin, cmax, minInGamut >>
          \/ /\ ~(dE < JND /\ JND - dE < eps)
             /\ cmax' = chroma
             /\ UNCHANGED << ret, pc, path, cmin, minInGamut >>
  /\ iter' = iter + 1
  /\ UNCHANGED << concVars, op, from, to, v, src, origin >>

\* An iteration that clips its candidate.  Within JND: the clipped color is
\* returned if its error is within eps of JND, else the lower bound is
\* raised.  Not within JND: the upper bound is lowered.
GamutIterClip ==
  /\ pc = "loop" /\ cmax # Inf /\ cmax - cmin > eps
  /\ \E chroma \in {Midpoint} :
     \E currentRGB \in {OKLCH_LSRGB([current EXCEPT !.C = chroma])} :
     \E clip \in {LSRGB_ClipToGamut(currentRGB)} :
     \E clipLab \in {LSRGB_OKLAB(clip)} :
     \E dE \in {DeltaE(clipLab, OKLCH_OKLAB([current EXCEPT !.C = chroma]))} :
       /\ ~(minInGamut /\ LSRGB_InGamut(currentRGB))
       /\ current' = [current EXCEPT !.C = chroma]
       /\ clipped' = clip /\ E' = dE
       /\ \/ /\ dE < JND /\ JND - dE < eps
             /\ ret' = OKLAB_OKLCH(clipLab)
             /\ pc' = "done" /\ path' = "search"
             /\ UNCHANGED << cmin, cmax, minInGamut >>
          \/ /\ dE < JND /\ ~(JND - dE < eps)
             /\ cmin' = chroma
             /\ minInGamut' = LSRGB_InGamut(OKLCH_LSRGB([L |-> current.L, C |-> chroma,
                                                         H |-> current.H]))
             /\ UNCHANGED << ret, pc, path, cmax >>
          \/ /\ ~(dE < JND)
             /\ cmax' = chroma
             /\ UNCHANGED << ret, pc, path, cmin, minInGamut >>
  /\ iter' = iter + 1
  /\ UNCHANGED << concVars, op, from, to, v, src, origin >>

\* The fallback that returns the last candidate instead of the clipped color.
GamutFallback_ReturnsCurrent ==
  /\ pc = "loop" /\ ~(cmax - cmin > eps)
  /\ ret' = current
  /\ pc' = "done" /\ path' = "fallback"
  /\ UNCHANGED << concVars, op, from, to, v, src, origin, current, clipped, E, cmin, cmax,
                  minInGamut, iter >>

\* The loop condition fails: the last clipped color is returned.
GamutFallback ==
  /\ pc = "loop" /\ ~(cmax - cmin > eps)
  /\ ret' = OKLAB_OKLCH(LSRGB_OKLAB(clipped))
  /\ pc' = "done" /\ path' = "fallback"
  /\ UNCHANGED << concVars, op, from, to, v, src, origin, current, clipped, E, cmin, cmax,
                  minInGamut, iter >>

\* A value the code computes from a chroma of +Inf.  OKLCH.OKLAB multiplies
\* the chroma by the sine and the cosine of the hue, so A and B are +Inf,
\* -Inf or NaN, and so is every channel and every DeltaE computed from them;
\* ms1.Clamp of such a channel is what its code, which is not in the
\* package, makes of it.  No test of the mapper holds of such a value:
\* InGamut is false of the color and E < JND is false.
NonFinite == Inf
NonFiniteLSRGB == RGB(<< NonFinite, NonFinite, NonFinite >>)

\* The number of iterations the model follows a search that does not end.
MaxIter == 16

\* The entry with L in [0, 1] and a chroma of +Inf: E is not below JND, and
\* the search starts with cmax = +Inf.
GamutClipTestNonFinite ==
  /\ pc = "idle" /\ op = None
  /\ \E c \in GamutInputs :
       /\ ~LightnessOutOfRange(c) /\ c.C = Inf
       /\ origin' = c /\ current' = c
       /\ cmax' = c.C
  /\ clipped' = NonFiniteLSRGB /\ E' = NonFinite
  /\ cmin' = 0 /\ minInGamut' = TRUE
  /\ pc' = "loop"
  /\ op' = "OKLCH.GamutMappedLSRGB"
  /\ UNCHANGED << concVars, from, to, v, ret, src, iter, path >>

\* An iteration with cmax = +Inf: cmax - cmin = +Inf > eps, the midpoint
\* 0.5 * (cmin + cmax) is +Inf, the candidate is not in gamut and E is not
\* below JND, so cmax = chroma = +Inf again.
GamutIterNonFinite ==
  /\ pc = "loop" /\ cmax = Inf /\ iter < MaxIter
  /\ current' = [current EXCEPT !.C = Inf]
  /\ clipped' = NonFiniteLSRGB /\ E' = NonFinite
  /\ cmax' = Inf
  /\ iter' = iter + 1
  /\ UNCHANGED << concVars, callVars, pc, origin, cmin, minInGamut, path >>

NextGamut ==
  \/ GamutLightnessReturn
  \/ GamutClipTest
  \/ GamutIterInGamut
  \/ GamutIterClip
  \/ GamutFallback
  \/ GamutClipTestNonFinite
  \/ GamutIterNonFinite

SpecGamut == Init /\ [][NextGamut]_vars

-----------------------------------------------------------------------------
(* The gamma codec.  Its power law is steep near 0 (the slope of the       *)
(* encoding is 12.92 there), so the codec is computed on a finer grid than *)
(* the colors are: Fine units to one unit of Scale (1e-8).                 *)

Fine == 100
FScale == Fine * Scale
\* The base the operands of a fine product are split at.
FLimb == 100 * 100

\* a * b / FScale for a, b >= 0, rounded to the nearest unit.
FMul(a, b) ==
  (a \div FLimb) * (b \div FLimb)
  + ( (a \div FLimb) * (b % FLimb) + (a % FLimb) * (b \div FLimb)
      + ((a % FLimb) * (b % FLimb) + FLimb \div 2) \div FLimb + FLimb \div 2 ) \div FLimb

\* x * num / den for x >= 0 and small num, den > 0, rounded to the nearest unit.
FRatio(x, num, den) == (x \div den) * num + ((x % den) * num + den \div 2) \div den

\* The largest y in lo..hi-1 with y^2 <= q (bisection).
RECURSIVE FSqrtSearch(_, _, _)
FSqrtSearch(q, lo, hi) ==
  IF hi - lo <= 1 THEN lo
  ELSE IF FMul((lo + hi) \div 2, (lo + hi) \div 2) <= q
       THEN FSqrtSearch(q, (lo + hi) \div 2, hi)
       ELSE FSqrtSearch(q, lo, (lo + hi) \div 2)

FSqrt(q) == FSqrtSearch(q, 0, FScale + 1)

FCube(y) == FMul(FMul(y, y), y)

\* The largest y in lo..hi-1 with y^3 <= q (bisection).
RECURSIVE FCbrtSearch(_, _, _)
FCbrtSearch(q, lo, hi) ==
  IF hi - lo <= 1 THEN lo
  ELSE IF FCube((lo + hi) \div 2) <= q
       THEN FCbrtSearch(q, (lo + hi) \div 2, hi)
       ELSE FCbrtSearch(q, lo, (lo + hi) \div 2)

FCbrt(q) == FCbrtSearch(q, 0, FScale + 1)

\* y^5, by squaring: (y^2)^2 * y.
FFifthOf(y, y2) == FMul(FMul(y2, y2), y)
FFifth(y) == FFifthOf(y, FMul(y, y))

\* The largest y in lo..hi-1 with y^5 <= q (bisection).
RECURSIVE FFifthRootSearch(_, _, _)
FFifthRootSearch(q, lo, hi) ==
  IF hi - lo <= 1 THEN lo
  ELSE IF FFifth((lo + hi) \div 2) <= q
       THEN FFifthRootSearch(q, (lo + hi) \div 2, hi)
       ELSE FFifthRootSearch(q, lo, (lo + hi) \div 2)

\* math32.Pow(x, 2.4) for x in [0, 1]: x^2.4 = x^2 * (x^2)^(1/5).
Pow24Of(x2) == FMul(x2, FFifthRootSearch(x2, 0, FScale + 1))
Pow24(x) == Pow24Of(FMul(x, x))

\* math32.Pow(x, 1./2.4) for x in [0, 1]: x^(5/12) = (x^(1/12))^5, with
\* x^(1/12) the cube root of the square root of the square root.
PowInv24(x) == FFifth(FCbrt(FSqrt(FSqrt(x))))

\* transferFunc, the gamma decoding, for |v| <= 1 in fine units:
\* v / 12.92 if |v| <= 0.04045, else sign * Pow((|v| + 0.055) / 1.055, 2.4).
transferFunc_Unsigned(x) ==
  IF Abs(x) <= 4045000 THEN Sgn(x) * FRatio(Abs(x), 100, 1292)
  ELSE Pow24(FRatio(Abs(x) + 5500000, 1000, 1055))

transferFunc(x) ==
  IF Abs(x) <= 4045000 THEN Sgn(x) * FRatio(Abs(x), 100, 1292)
  ELSE Sgn(x) * Pow24(FRatio(Abs(x) + 5500000, 1000, 1055))

\* invTransferFunc, the gamma encoding, for |v| <= 1 in fine units:
\* 12.92 * v if |v| <= 0.0031308, else sign * (1.055 * Pow(|v|, 1/2.4) - 0.055).
invTransferFunc(x) ==
  IF Abs(x) <= 313080 THEN Sgn(x) * FRatio(Abs(x), 1292, 100)
  ELSE Sgn(x) * (FRatio(PowInv24(Abs(x)), 1055, 1000) - 5500000)

\* A channel of a color (units of Scale) on the fine grid, and back.
ToFine(x) == x * Fine
FromFine(y) == Sgn(y) * ((Abs(y) + Fine \div 2) \div Fine)

\* SRGB.LSRGB and LSRGB.SRGB: the codec on each channel.
SRGB_LSRGB(c) ==
  [R |-> FromFine(transferFunc(ToFine(c.R))),
   G |-> FromFine(transferFunc(ToFine(c.G))),
   B |-> FromFine(transferFunc(ToFine(c.B)))]

LSRGB_SRGB(c) ==
  [R |-> FromFine(invTransferFunc(ToFine(c.R))),
   G |-> FromFine(invTransferFunc(ToFine(c.G))),
   B |-> FromFine(invTransferFunc(ToFine(c.B)))]

\* The same two conversions of a color kept on the fine grid.
SRGB_LSRGB_Fine(c) ==
  [R |-> transferFunc(c.R), G |-> transferFunc(c.G), B |-> transferFunc(c.B)]

LSRGB_SRGB_Fine(c) ==
  [R |-> invTransferFunc(c.R), G |-> invTransferFunc(c.G), B |-> invTransferFunc(c.B)]

\* SRGB channels (fine units) for the round trip c.LSRGB().SRGB(): the ends
\* of [0, 1], the decoding threshold 0.04045 and its neighbour, values on
\* either branch, negative values.
GammaVals == << 0, FScale, 4045000, 4045001, 50000000, -50000000, 3000000,
                -3000000, 313080, 21404000 >>
NumGamma == 7

GammaSamples ==
  {[R |-> r, G |-> g, B |-> b] : r \in Take(GammaVals, NumGamma),
                                 g \in Take(GammaVals, NumGamma),
                                 b \in Take(GammaVals, NumGamma)}

\* c.LSRGB().SRGB(): from is c, to is c.LSRGB(), ret the result (fine units).
CallSRGBRoundTrip ==
  /\ op = None
  /\ \E c \in GammaSamples :
     \E lin \in {SRGB_LSRGB_Fine(c)} :
       Call("SRGB.LSRGB.SRGB", c, lin, 0, LSRGB_SRGB_Fine(lin), << >>)

-----------------------------------------------------------------------------
(* CIEXYZ <-> CIELAB, relative to the D50 white, and CIELCH -> CIELAB.     *)

\* The constants of the CIE formula: epsilon = 216/24389, kappa = 24389/27
\* (kept as the fraction kappaNum / kappaDen), ecbrt = 6/29, and the
\* lightness kappa * epsilon = 8 at which the branches of Y meet.
epsilon == 8856
kappaNum == 24389
kappaDen == 27
ecbrt == 206897
kappaEpsilon == 8 * Scale

\* x * num / den and a / n for integers of either sign, rounded.
Ratio(x, num, den) == Sgn(x) * FRatio(Abs(x), num, den)
RoundDiv(a, n) == Sgn(a) * ((Abs(a) + n \div 2) \div n)

\* The local function f of CIEXYZ.CIELAB.
LabF(x) ==
  IF x > epsilon THEN Cbrt(x)
  ELSE RoundDiv(Ratio(x, kappaNum, kappaDen) + 16 * Scale, 116)

\* The return statement of CIEXYZ.CIELAB for fx = f(xyz.X), fy, fz.
CIELAB_OfF(fx, fy, fz) ==
  [L |-> 116 * fy - 16 * Scale, A |-> 500 * (fx - fy), B |-> 200 * (fy - fz)]

CIEXYZ_CIELAB(c) ==
  CIELAB_OfF(LabF(Div(c.X, d50[1])), LabF(Div(c.Y, d50[2])), LabF(Div(c.Z, d50[3])))

\* The X and Z branches of CIELAB.CIEXYZ for f = f0 or f2.
LabFInv(f) ==
  IF f > ecbrt THEN Cube(f)
  ELSE Ratio(116 * f - 16 * Scale, kappaDen, kappaNum)

\* The Y branch of CIELAB.CIEXYZ: the cube of (L + 16) / 116 above
\* kappa * epsilon, and (116 * L - 16) / kappa otherwise.
LabYInv(L, f1) ==
  IF L > kappaEpsilon THEN Cube(f1)
  ELSE Ratio(116 * L - 16 * Scale, kappaDen, kappaNum)

\* CIELAB.CIEXYZ once f1 = (L + 16) / 116 is computed.
CIELAB_CIEXYZ_Of(c, f1) ==
  XYZ(<< Mul(LabFInv(RoundDiv(c.A, 500) + f1), d50[1]),
         Mul(LabYInv(c.L, f1), d50[2]),
         Mul(LabFInv(f1 - RoundDiv(c.B, 200)), d50[3]) >>)

CIELAB_CIEXYZ(c) == CIELAB_CIEXYZ_Of(c, RoundDiv(c.L + 16 * Scale, 116))

\* CIELCH.CIELAB: A = C * cos(H), B = C * sin(H) for sc = <<sin, cos>>.
CIELAB_Of(c, sc) == [L |-> c.L, A |-> Mul(c.C, sc[2]), B |-> Mul(c.C, sc[1])]

CIELCH_CIELAB(c) == CIELAB_Of(c, Sincos(c.H))

-----------------------------------------------------------------------------
(* The calls of the conversions: round trips and the chain from SRGB.      *)

\* CIEXYZ colors with non-negative components, as <<X, Y, Z>>: black, the
\* D50 white, the red primary, a gray on the cube-root branch, colors with
\* Y / Yn below epsilon (the linear branch) and at epsilon.
LabXYZVals == << <<0, 0, 0>>, d50, <<412391, 212639, 19331>>, <<200000, 180000, 150000>>,
                 <<5000, 5000, 5000>>, <<500000, 8856, 4000>>, <<8000, 8000, 7000>>,
                 <<300000, 500000, 100000>> >>
NumLabXYZ == 6

\* SRGB colors, as <<R, G, B>>: the primaries, white, black, a mixed color.
SRGBVals == << <<Scale, 0, 0>>, <<0, Scale, 0>>, <<0, 0, Scale>>, <<Scale, Scale, Scale>>,
               <<0, 0, 0>>, <<500000, 200000, 800000>>, <<40450, 3000, 900000>> >>
NumSRGB == 5

\* c.CIELAB().CIEXYZ(): from is c, to is c.CIELAB(), ret the result.
CallCIEXYZRoundTrip ==
  /\ op = None
  /\ \E t \in Take(LabXYZVals, NumLabXYZ) :
     \E lab \in {CIEXYZ_CIELAB(XYZ(t))} :
       Call("CIEXYZ.CIELAB.CIEXYZ", XYZ(t), lab, 0, CIELAB_CIEXYZ(lab), << >>)

\* c.OKLCH().OKLAB(): from is c, to is c.OKLCH(), ret the result.
CallOKLABRoundTrip ==
  /\ op = None
  /\ \E t \in Take(LabVals, NumLab) :
     \E lch \in {OKLAB_OKLCH(LAB(t))} :
       Call("OKLAB.OKLCH.OKLAB", LAB(t), lch, 0, OKLCH_OKLAB(lch), << >>)

\* c.CIELCH().CIELAB(): from is c, to is c.CIELCH(), ret the result.
CallCIELABRoundTrip ==
  /\ op = None
  /\ \E t \in Take(LabVals, NumLab) :
     \E lch \in {CIELAB_CIELCH(LAB(t))} :
       Call("CIELAB.CIELCH.CIELAB", LAB(t), lch, 0, CIELCH_CIELAB(lch), << >>)

\* c.LSRGB().CIEXYZ().OKLAB(): from is c, src holds c.LSRGB(), to is the
\* CIEXYZ color, ret the OKLAB color.
CallSRGBToOKLAB ==
  /\ op = None
  /\ \E t \in Take(SRGBVals, NumSRGB) :
     \E lin \in {SRGB_LSRGB(RGB(t))} :
     \E xyz \in {LSRGB_CIEXYZ(lin)} :
       Call("SRGB.LSRGB.CIEXYZ.OKLAB", RGB(t), xyz, 0, CIEXYZ_OKLAB(xyz), << lin >>)

NextConv ==
  \/ CallSRGBRoundTrip
  \/ CallCIEXYZRoundTrip
  \/ CallOKLABRoundTrip
  \/ CallCIELABRoundTrip
  \/ CallSRGBToOKLAB

SpecConv == Init /\ [][NextConv]_vars

-----------------------------------------------------------------------------
(* The pipelines: two colors of the interchange pixel type and v in, one   *)
(* color out.  A color.Color is a record of the four 16-bit values of its  *)
(* RGBA method.                                                            *)

\* The largest value of a channel of color.Color.RGBA.
MaxChannel == 65535

\* ColorToSRGB: float32(r) / 0xffff on each channel, the alpha discarded.
ColorToSRGB(c) ==
  [R |-> DivAbs(c.R, MaxChannel), G |-> DivAbs(c.G, MaxChannel),
   B |-> DivAbs(c.B, MaxChannel)]

\* The whole part of x * 0xffff for x >= 0, without the 0.5 against bias.
ScaledChannel_Truncated(x) ==
  ((x \div Limb) * MaxChannel + ((x % Limb) * MaxChannel) \div Limb) \div Limb

\* The whole part of x * 0xffff + 0.5 for x >= 0, x computed limb by limb.
ScaledChannel(x) ==
  ((x \div Limb) * MaxChannel + ((x % Limb) * MaxChannel + Scale \div 2) \div Limb) \div Limb

\* The whole part of -(-x * 0xffff + 0.5) for x > 0, or 0 if that is below 1.
ScaledChannelNeg(x) ==
  Max(0, ((x \div Limb) * MaxChannel + ((x % Limb) * MaxChannel - Scale \div 2) \div Limb)
         \div Limb)

\* uint32(x * 0xffff + 0.5).  The conversion truncates toward zero.  Of a
\* value of -1 or less, which no uint32 holds, the result depends on the
\* target: 0 where the conversion saturates, 2^32 - n where it wraps.  A
\* uint32 of 2^31 or more is written as the negative integer of the same
\* 32 bits, so 2^32 - n is -n.
Uint32Of(x) ==
  IF x >= 0 THEN {ScaledChannel(x)}
  ELSE {0, -ScaledChannelNeg(-x)}

\* SRGB.RGBA: the set of the results of the call.
SRGB_RGBA(c) ==
  {[R |-> r, G |-> g, B |-> b, A |-> MaxChannel] :
     r \in Uint32Of(c.R), g \in Uint32Of(c.G), b \in Uint32Of(c.B)}

\* OKLCH.GamutMappedLSRGB as a function of a color with a finite chroma.
\* GamutSearch is the loop, with the locals of the code as its parameters;
\* GamutSearchAt, GamutSearchClip and GamutSearchTest are one iteration, each
\* binding the next local.
RECURSIVE GamutSearch(_, _, _, _, _)
GamutSearchTest(cur, lo, hi, mig, chroma, clip, clipLab, dE) ==
  IF dE < JND
  THEN IF JND - dE < eps
       THEN OKLAB_OKLCH(clipLab)
       ELSE GamutSearch(cur, chroma, hi, LSRGB_InGamut(OKLCH_LSRGB(cur)), clip)
  ELSE GamutSearch(cur, lo, chroma, mig, clip)

GamutSearchClip(cur, lo, hi, mig, chroma, clip, clipLab) ==
  GamutSearchTest(cur, lo, hi, mig, chroma, clip, clipLab,
                  DeltaE(clipLab, OKLCH_OKLAB(cur)))

GamutSearchAt(cur, lo, hi, mig, clip, chroma, currentRGB) ==
  IF mig /\ LSRGB_InGamut(currentRGB)
  THEN GamutSearch(cur, chroma, hi, LSRGB_InGamut(OKLCH_LSRGB(cur)), clip)
  ELSE GamutSearchClip(cur, lo, hi, mig, chroma, LSRGB_ClipToGamut(currentRGB),
                       LSRGB_OKLAB(LSRGB_ClipToGamut(currentRGB)))

GamutSearch(cur, lo, hi, mig, clip) ==
  IF hi - lo > eps
  THEN GamutSearchAt([cur EXCEPT !.C = Mul(Scale \div 2, lo + hi)], lo, hi, mig, clip,
                     Mul(Scale \div 2, lo + hi),
                     OKLCH_LSRGB([cur EXCEPT !.C = Mul(Scale \div 2, lo + hi)]))
  ELSE OKLAB_OKLCH(LSRGB_OKLAB(clip))

GamutEntry(c, clip, clipLab) ==
  IF DeltaE(OKLCH_OKLAB(c), clipLab) < JND
  THEN OKLAB_OKLCH(clipLab)
  ELSE GamutSearch(c, 0, c.C, TRUE, clip)

OKLCH_GamutMappedLSRGB(c) ==
  IF LightnessOutOfRange(c)
  THEN [L |-> Min(Max(c.L, 0), Scale), C |-> 0, H |-> 0]
  ELSE GamutEntry(c, LSRGB_ClipToGamut(OKLCH_LSRGB(c)),
                  LSRGB_OKLAB(LSRGB_ClipToGamut(OKLCH_LSRGB(c))))

\* ColorToSRGB(c).LSRGB().CIEXYZ().OKLAB(), and the way back up to the clip
\* and the encoding that end four of the pipelines.
ColorToLSRGB(c) == SRGB_LSRGB(ColorToSRGB(c))
ColorToCIEXYZ(c) == LSRGB_CIEXYZ(ColorToLSRGB(c))
ColorToOKLAB(c) == CIEXYZ_OKLAB(ColorToCIEXYZ(c))
ColorToOKLCH(c) == OKLAB_OKLCH(ColorToOKLAB(c))
ClipAndEncode(c) == LSRGB_SRGB(LSRGB_ClipToGamut(c))

LerpSRGB(c1, c2, a) == SRGB_Lerp(ColorToSRGB(c1), ColorToSRGB(c2), a)

LerpLSRGB(c1, c2, a) == ClipAndEncode(LSRGB_Lerp(ColorToLSRGB(c1), ColorToLSRGB(c2), a))

LerpCIEXYZ(c1, c2, a) ==
  ClipAndEncode(CIEXYZ_LSRGB(CIEXYZ_Lerp(ColorToCIEXYZ(c1), ColorToCIEXYZ(c2), a)))

\* LerpOKLAB and LerpOKLCH local by local: the color handed to the gamut
\* mapper, and mapped.OKLAB().CIEXYZ().LSRGB().ClipToGamut() of the local
\* mapped, whose SRGB() is returned.
LerpOKLAB_lch(c1, c2, a) == OKLAB_OKLCH(OKLAB_Lerp(ColorToOKLAB(c1), ColorToOKLAB(c2), a))

LerpOKLCH_lch(c1, c2, a) == OKLCH_Lerp(ColorToOKLCH(c1), ColorToOKLCH(c2), a)

MappedClipped(mapped) == LSRGB_ClipToGamut(OKLCH_LSRGB(mapped))

\* Colors as <<r, g, b, a>>: black, white, the red and blue primaries, a mixed
\* color, a half-transparent green (alpha-premultiplied), a transparent color.
ColorVals == << <<0, 0, 0, MaxChannel>>, <<MaxChannel, MaxChannel, MaxChannel, MaxChannel>>,
                <<MaxChannel, 0, 0, MaxChannel>>, <<0, 0, MaxChannel, MaxChannel>>,
                <<32896, 8224, 49344, MaxChannel>>, <<0, 32768, 0, 32768>>,
                <<0, 0, 0, 0>> >>
NumColor == 4

Color(t) == [R |-> t[1], G |-> t[2], B |-> t[3], A |-> t[4]]

\* A call of a pipeline and of RGBA on the color it returns: from and to are
\* the two colors, ret the SRGB color returned, src holds the result of RGBA.
CallPipeline(name, c1, c2, a, r) ==
  \E rgba \in SRGB_RGBA(r) : Call(name, c1, c2, a, r, << rgba >>)

CallLerpSRGB ==
  /\ op = None
  /\ \E f \in Take(ColorVals, NumColor), t \in Take(ColorVals, NumColor), a \in Take(VVals, NumV) :
     \E r \in {LerpSRGB(Color(f), Color(t), a)} :
       CallPipeline("LerpSRGB", Color(f), Color(t), a, r)

CallLerpLSRGB ==
  /\ op = None
  /\ \E f \in Take(ColorVals, NumColor), t \in Take(ColorVals, NumColor), a \in Take(VVals, NumV) :
     \E r \in {LerpLSRGB(Color(f), Color(t), a)} :
       CallPipeline("LerpLSRGB", Color(f), Color(t), a, r)

CallLerpCIEXYZ ==
  /\ op = None
  /\ \E f \in Take(ColorVals, NumColor), t \in Take(ColorVals, NumColor), a \in Take(VVals, NumV) :
     \E r \in {LerpCIEXYZ(Color(f), Color(t), a)} :
       CallPipeline("LerpCIEXYZ", Color(f), Color(t), a, r)

CallLerpOKLAB ==
  /\ op = None
  /\ \E f \in Take(ColorVals, NumColor), t \in Take(ColorVals, NumColor), a \in Take(VVals, NumV) :
     \E lch \in {LerpOKLAB_lch(Color(f), Color(t), a)} :
     \E mapped \in {OKLCH_GamutMappedLSRGB(lch)} :
     \E lin \in {MappedClipped(mapped)} :
     \E r \in {LSRGB_SRGB(lin)} :
       CallPipeline("LerpOKLAB", Color(f), Color(t), a, r)

CallLerpOKLCH ==
  /\ op = None
  /\ \E f \in Take(ColorVals, NumColor), t \in Take(ColorVals, NumColor), a \in Take(VVals, NumV) :
     \E lch \in {LerpOKLCH_lch(Color(f), Color(t), a)} :
     \E mapped \in {OKLCH_GamutMappedLSRGB(lch)} :
     \E lin \in {MappedClipped(mapped)} :
     \E r \in {LSRGB_SRGB(lin)} :
       CallPipeline("LerpOKLCH", Color(f), Color(t), a, r)

NextPipeline ==
  \/ CallLerpSRGB
  \/ CallLerpLSRGB
  \/ CallLerpCIEXYZ
  \/ CallLerpOKLAB
  \/ CallLerpOKLCH

SpecPipeline == Init /\ [][NextPipeline]_vars

-----------------------------------------------------------------------------
(* Concurrent calls.  Each goroutine makes one call, step by step; the     *)
(* steps of the goroutines interleave.  A step that uses a package-level   *)
(* matrix or the white point reads it from pkg, the state the goroutines   *)
(* share; everything else a step touches is a local of its goroutine.      *)

\* The conversions, with the package-level variables read from p.
LSRGB_CIEXYZ_In(p, c) == XYZ(MulMatVec(p.linSRGBToXYZ, <<c.R, c.G, c.B>>))

CIEXYZ_LSRGB_In(p, c) == RGB(MulMatVec(p.xyzToLinSRGB, <<c.X, c.Y, c.Z>>))

CIEXYZ_OKLAB_In(p, c) ==
  LAB(MulMatVec(p.lmsToOKLAB, CbrtElem(MulMatVec(p.xyzToLMS, <<c.X, c.Y, c.Z>>))))

OKLAB_CIEXYZ_In(p, c) ==
  XYZ(MulMatVec(p.lmsToXYZ, CubeElem(MulMatVec(p.oklabToLMS, <<c.L, c.A, c.B>>))))

OKLCH_LSRGB_In(p, c) == CIEXYZ_LSRGB_In(p, OKLAB_CIEXYZ_In(p, OKLCH_OKLAB(c)))

LSRGB_OKLAB_In(p, c) == CIEXYZ_OKLAB_In(p, LSRGB_CIEXYZ_In(p, c))

ColorToOKLAB_In(p, c) == CIEXYZ_OKLAB_In(p, LSRGB_CIEXYZ_In(p, ColorToLSRGB(c)))

CIEXYZ_CIELAB_In(p, c) ==
  CIELAB_OfF(LabF(Div(c.X, p.d50[1])), LabF(Div(c.Y, p.d50[2])), LabF(Div(c.Z, p.d50[3])))

CIELAB_CIEXYZ_OfIn(p, c, f1) ==
  XYZ(<< Mul(LabFInv(RoundDiv(c.A, 500) + f1), p.d50[1]),
         Mul(LabYInv(c.L, f1), p.d50[2]),
         Mul(LabFInv(f1 - RoundDiv(c.B, 200)), p.d50[3]) >>)

CIELAB_CIEXYZ_In(p, c) == CIELAB_CIEXYZ_OfIn(p, c, RoundDiv(c.L + 16 * Scale, 116))

\* The arguments of the concurrent calls: <<c1, c2, v>> of LerpOKLAB (red to
\* blue past the end, white to red halfway, blue to white) and the receiver
\* of CIEXYZ.CIELAB, and the receiver <<L, C, H>> of GamutMappedLSRGB (a color
\* whose search ends when the interval is used up, one with L above 1, one
\* in the blue).
ConcLerpVals == << << <<MaxChannel, 0, 0, MaxChannel>>, <<0, 0, MaxChannel, MaxChannel>>,
                      (3 * Scale) \div 2 >>,
                   << <<MaxChannel, MaxChannel, MaxChannel, MaxChannel>>,
                      <<MaxChannel, 0, 0, MaxChannel>>, Scale \div 2 >>,
                   << <<0, 0, MaxChannel, MaxChannel>>,
                      <<MaxChannel, MaxChannel, MaxChannel, MaxChannel>>, Scale \div 2 >> >>
ConcXYZVals == << <<200000, 180000, 150000>>, <<412391, 212639, 19331>>,
                  <<300000, 500000, 100000>> >>
ConcLCHVals == << <<600000, 400000, 0>>, <<1200000, 100000, 30 * Scale>>,
                  <<700000, 250000, 264 * Scale>> >>
NumConc == 2

LCH(t) == [L |-> t[1], C |-> t[2], H |-> t[3]]

\* What LerpOKLAB returns when run alone, local by local.
LerpOKLABAlone(t) ==
  CHOOSE r \in {LSRGB_SRGB(lin) :
                  lin \in {MappedClipped(mapped) :
                    mapped \in {OKLCH_GamutMappedLSRGB(lch) :
                      lch \in {LerpOKLAB_lch(Color(t[1]), Color(t[2]), t[3])}}}} : TRUE

\* A goroutine at a go statement: the function, its arguments, and in alone
\* what the function returns for them when run alone.
GoLerpOKLAB(t) ==
  [IdleGoroutine EXCEPT !.call = "LerpOKLAB", !.pc = "called",
                        !.c1 = Color(t[1]), !.c2 = Color(t[2]), !.a = t[3],
                        !.alone = LerpOKLABAlone(t)]

GoGamutMapped(c) ==
  [IdleGoroutine EXCEPT !.call = "OKLCH.GamutMappedLSRGB", !.pc = "called",
                        !.lch = c, !.alone = OKLCH_GamutMappedLSRGB(c)]

GoCIELAB(c) ==
  [IdleGoroutine EXCEPT !.call = "CIEXYZ.CIELAB.CIEXYZ", !.pc = "called",
                        !.c1 = c, !.alone = CIELAB_CIEXYZ(CIEXYZ_CIELAB(c))]

GoStatements ==
  {GoLerpOKLAB(t) : t \in Take(ConcLerpVals, NumConc)}
  \cup {GoGamutMapped(LCH(t)) : t \in Take(ConcLCHVals, NumConc)}
  \cup {GoCIELAB(XYZ(t)) : t \in Take(ConcXYZVals, NumConc)}

\* A goroutine is in the middle of a call.
Busy(g) == gor[g].pc \notin {"idle", "called", "done"}

\* The step of goroutine g that leaves it as the record r.  It writes nothing
\* the goroutines share.  (overlapped notes that the step was taken while
\* another goroutine was in the middle of its call.)
StepInPlace(g, r, p) ==
  /\ gor' = [gor EXCEPT ![g] =
               [r EXCEPT !.overlapped = @ \/ \E h \in Goroutines \ {g} : Busy(h)]]
  /\ pkg' = p
  /\ UNCHANGED << callVars, gamutVars >>

Step(g, r) == StepInPlace(g, r, pkg)

\* The go statements: every goroutine is given its call.
Spawn ==
  /\ op = None /\ pc = "idle"
  /\ \A g \in Goroutines : gor[g].pc = "idle"
  /\ \E calls \in [Goroutines -> GoStatements] : gor' = calls
  /\ UNCHANGED << callVars, gamutVars, pkg >>

\* The calls begin: LerpOKLAB(c1, c2, v), c.GamutMappedLSRGB() and
\* c.CIELAB().CIEXYZ().
GoCallLerpOKLAB(g) ==
  /\ gor[g].pc = "called" /\ gor[g].call = "LerpOKLAB"
  /\ Step(g, [gor[g] EXCEPT !.pc = "o1"])

GoCallGamutMapped(g) ==
  /\ gor[g].pc = "called" /\ gor[g].call = "OKLCH.GamutMappedLSRGB"
  /\ Step(g, [gor[g] EXCEPT !.pc = "map"])

GoCallCIELAB(g) ==
  /\ gor[g].pc = "called" /\ gor[g].call = "CIEXYZ.CIELAB.CIEXYZ"
  /\ Step(g, [gor[g] EXCEPT !.pc = "lab"])

\* o1 := ColorToSRGB(c1).LSRGB().CIEXYZ().OKLAB(), and o2 alike.
GoColorToOKLAB1(g) ==
  /\ gor[g].pc = "o1"
  /\ Step(g, [gor[g] EXCEPT !.pc = "o2", !.o1 = ColorToOKLAB_In(pkg, gor[g].c1)])

GoColorToOKLAB2(g) ==
  /\ gor[g].pc = "o2"
  /\ Step(g, [gor[g] EXCEPT !.pc = "lerp", !.o2 = ColorToOKLAB_In(pkg, gor[g].c2)])

\* lch := o1.Lerp(o2, v).OKLCH()
GoLerp(g) ==
  /\ gor[g].pc = "lerp"
  /\ Step(g, [gor[g] EXCEPT !.pc = "map",
                            !.lch = OKLAB_OKLCH(OKLAB_Lerp(gor[g].o1, gor[g].o2, gor[g].a))])

\* GamutMappedLSRGB of the color lch, up to the loop: the early return, the
\* return of the clipped color, or the start of the search.
GoGamutEntryOf(g, c, clip, clipLab) ==
  IF LightnessOutOfRange(c)
  THEN Step(g, [gor[g] EXCEPT !.pc = "mapped",
                              !.mapped = [L |-> Min(Max(c.L, 0), Scale), C |-> 0, H |-> 0]])
  ELSE IF DeltaE(OKLCH_OKLAB(c), clipLab) < JND
  THEN Step(g, [gor[g] EXCEPT !.pc = "mapped", !.clipped = clip,
                              !.mapped = OKLAB_OKLCH(clipLab)])
  ELSE Step(g, [gor[g] EXCEPT !.pc = "loop", !.clipped = clip,
                              !.cmin = 0, !.cmax = c.C, !.minInGamut = TRUE])

GoGamutEntry(g) ==
  /\ gor[g].pc = "map"
  /\ \E clip \in {LSRGB_ClipToGamut(OKLCH_LSRGB_In(pkg, gor[g].lch))} :
     \E clipLab \in {LSRGB_OKLAB_In(pkg, clip)} :
       GoGamutEntryOf(g, gor[g].lch, clip, clipLab)

\* One iteration of the loop, for the candidate cur of chroma
\* 0.5 * (cmin + cmax), currentRGB its LSRGB color, and clip, clipLab and dE
\* the clipped color, its OKLAB color and its distance to the candidate.
GoGamutIterOf(g, cur, currentRGB, clip, clipLab, dE) ==
  IF gor[g].minInGamut /\ LSRGB_InGamut(currentRGB)
  THEN Step(g, [gor[g] EXCEPT !.cmin = cur.C,
                              !.minInGamut = LSRGB_InGamut(OKLCH_LSRGB_In(pkg, cur))])
  ELSE IF dE < JND
  THEN IF JND - dE < eps
       THEN Step(g, [gor[g] EXCEPT !.pc = "mapped", !.clipped = clip,
                                   !.mapped = OKLAB_OKLCH(clipLab)])
       ELSE Step(g, [gor[g] EXCEPT !.clipped = clip, !.cmin = cur.C,
                                   !.minInGamut = LSRGB_InGamut(OKLCH_LSRGB_In(pkg, cur))])
  ELSE Step(g, [gor[g] EXCEPT !.clipped = clip, !.cmax = cur.C])

GoGamutIter(g) ==
  /\ gor[g].pc = "loop" /\ gor[g].cmax - gor[g].cmin > eps
  /\ \E cur \in {[gor[g].lch EXCEPT !.C = Mul(Scale \div 2, gor[g].cmin + gor[g].cmax)]} :
     \E currentRGB \in {OKLCH_LSRGB_In(pkg, cur)} :
     \E clip \in {LSRGB_ClipToGamut(currentRGB)} :
     \E clipLab \in {LSRGB_OKLAB_In(pkg, clip)} :
     \E dE \in {DeltaE(clipLab, OKLCH_OKLAB(cur))} :
       GoGamutIterOf(g, cur, currentRGB, clip, clipLab, dE)

\* The loop condition fails: the last clipped color is returned.
GoGamutFallback(g) ==
  /\ gor[g].pc = "loop" /\ ~(gor[g].cmax - gor[g].cmin > eps)
  /\ Step(g, [gor[g] EXCEPT !.pc = "mapped",
                            !.mapped = OKLAB_OKLCH(LSRGB_OKLAB_In(pkg, gor[g].clipped))])

\* The gamut mapper returns to the caller of c.GamutMappedLSRGB().
GoGamutReturn(g) ==
  /\ gor[g].pc = "mapped" /\ gor[g].call = "OKLCH.GamutMappedLSRGB"
  /\ Step(g, [gor[g] EXCEPT !.pc = "done", !.ret = gor[g].mapped])

\* In LerpOKLAB: return mapped.OKLAB().CIEXYZ().LSRGB().ClipToGamut().SRGB()
GoEncode(g) ==
  /\ gor[g].pc = "mapped" /\ gor[g].call = "LerpOKLAB"
  /\ \E lin \in {LSRGB_ClipToGamut(OKLCH_LSRGB_In(pkg, gor[g].mapped))} :
       Step(g, [gor[g] EXCEPT !.pc = "done", !.ret = LSRGB_SRGB(lin)])

\* lab := c.CIELAB(), then lab.CIEXYZ(), each reading d50.
GoCIEXYZToCIELAB(g) ==
  /\ gor[g].pc = "lab"
  /\ Step(g, [gor[g] EXCEPT !.pc = "xyz", !.lab = CIEXYZ_CIELAB_In(pkg, gor[g].c1)])

\* CIELAB.CIEXYZ with the product by the white point stored in the white
\* point.
GoCIELABToCIEXYZ_InPlace(g) ==
  /\ gor[g].pc = "xyz"
  /\ \E r \in {CIELAB_CIEXYZ_In(pkg, gor[g].lab)} :
       StepInPlace(g, [gor[g] EXCEPT !.pc = "done", !.ret = r],
                   [pkg EXCEPT !.d50 = << r.X, r.Y, r.Z >>])

GoCIELABToCIEXYZ(g) ==
  /\ gor[g].pc = "xyz"
  /\ Step(g, [gor[g] EXCEPT !.pc = "done", !.ret = CIELAB_CIEXYZ_In(pkg, gor[g].lab)])

NextConc ==
  \/ Spawn
  \/ \E g \in Goroutines : GoCallLerpOKLAB(g)
  \/ \E g \in Goroutines : GoCallGamutMapped(g)
  \/ \E g \in Goroutines : GoCallCIELAB(g)
  \/ \E g \in Goroutines : GoColorToOKLAB1(g)
  \/ \E g \in Goroutines : GoColorToOKLAB2(g)
  \/ \E g \in Goroutines : GoLerp(g)
  \/ \E g \in Goroutines : GoGamutEntry(g)
  \/ \E g \in Goroutines : GoGamutIter(g)
  \/ \E g \in Goroutines : GoGamutFallback(g)
  \/ \E g \in Goroutines : GoGamutReturn(g)
  \/ \E g \in Goroutines : GoEncode(g)
  \/ \E g \in Goroutines : GoCIEXYZToCIELAB(g)
  \/ \E g \in Goroutines : GoCIELABToCIEXYZ(g)

SpecConc == Init /\ [][NextConc]_vars

-----------------------------------------------------------------------------
(* Re-encoding of 16-bit channels: ColorToSRGB(c).RGBA(), and RGBA() of    *)
(* LerpSRGB(c, c, v).                                                      *)

\* The colors with red channel r, for every 16-bit r.  The channels are
\* converted one by one, so green and blue run through the 16-bit values in
\* other orders (backwards, and in steps of 7919); the alpha is 0xffff or
\* the largest channel (the least an alpha-premultiplied color can have).
ChannelColor(r, g, b) ==
  [R |-> r, G |-> g, B |-> b,
   A |-> IF r % 2 = 0 THEN MaxChannel ELSE Max(r, Max(g, b))]

ChannelColors ==
  {ChannelColor(r, MaxChannel - r, (r * 7919) % (MaxChannel + 1)) : r \in 0..MaxChannel}

\* The colors handed to LerpSRGB as both of its arguments.
SameColors == {c \in ChannelColors : c.R % 251 = 0} \cup {Color(t) : t \in Take(ColorVals, NumColor)}

\* ColorToSRGB(c).RGBA(): from is c, ret the SRGB color, src holds the result
\* of RGBA.
CallColorToSRGB ==
  /\ op = None
  /\ \E c \in ChannelColors :
     \E r \in {ColorToSRGB(c)} :
       CallPipeline("ColorToSRGB.RGBA", c, None, 0, r)

\* LerpSRGB(c, c, v).RGBA(): from and to are c.
CallLerpSRGBSame ==
  /\ op = None
  /\ \E c \in SameColors, a \in Take(VVals, NumV) :
     \E r \in {LerpSRGB(c, c, a)} :
       CallPipeline("LerpSRGB.same", c, c, a, r)

NextChannel ==
  \/ CallColorToSRGB
  \/ CallLerpSRGBSame

SpecChannel == Init /\ [][NextChannel]_vars

\* The package as a whole: any call, alone or beside the others.
Next == NextLerp \/ NextGamut \/ NextConv \/ NextPipeline \/ NextConc \/ NextChannel

Spec == Init /\ [][Next]_vars

-----------------------------------------------------------------------------
(* Properties of the gamut mapper.                                         *)

\* The mapper has returned for an input with L in [0, 1].
Returned == pc = "done" /\ path # "lightness"

\* The second alternative of C1 for the linear RGB color r.
NearItsClip(r) == DeltaE(LSRGB_OKLAB(r), LSRGB_OKLAB(LSRGB_ClipToGamut(r))) < JND

\* C1: for every input with L in [0, 1], on every return path, the returned
\* color converted OKLCH -> OKLAB -> CIEXYZ -> LSRGB is in gamut, or its
\* Delta E to its channel-wise clip is below JND.
C1_MappedInGamutOrNearClip ==
  Returned => \E r \in {OKLCH_LSRGB(ret)} : LSRGB_InGamut(r) \/ NearItsClip(r)

\* The fallback return was taken, after a search that left the loop.
C1_FallbackReturned == Returned /\ path = "fallback" /\ iter > 0

\* C2: every iteration of the chroma search that does not return replaces
\* one of cmin, cmax by the midpoint and leaves an interval that is narrower,
\* and at most half as wide (up to the rounding of the midpoint) -- the
\* progress that makes the loop end.
C2_EveryIterationNarrows ==
  [][(pc = "loop" /\ pc' = "loop") =>
       /\ cmin' = cmin \/ cmax' = cmax
       /\ cmax' - cmin' < cmax - cmin
       /\ 2 * (cmax' - cmin') <= (cmax - cmin) + 1]_vars

\* C3: an input with L < 0 or L > 1 is returned at once, without the clip
\* test or the search, as L limited to [0, 1] with chroma 0 and hue 0.
C3_LightnessClamped ==
  (pc # "idle" /\ (origin.L < 0 \/ origin.L > Scale)) =>
     /\ pc = "done" /\ path = "lightness" /\ iter = 0
     /\ ret = [L |-> IF origin.L < 0 THEN 0 ELSE Scale, C |-> 0, H |-> 0]

\* An input with L above 1 (at most 100), a chroma and a hue was returned.
C3_BrightInputClamped ==
  /\ pc = "done" /\ origin.L > Scale /\ origin.L <= 100 * Scale
  /\ origin.C > 0 /\ origin.H > 0
  /\ ret = [L |-> Scale, C |-> 0, H |-> 0]

\* The distance of two hues (degrees) around the circle.
HueDistance(h1, h2) == Min(Abs(h1 - h2), FullTurn - Abs(h1 - h2))

\* C4: an input that is already in gamut is returned unchanged in L, C and
\* H (here: up to 0.00002 in L and C and 0.01 degree in H, the rounding of
\* the conversions), also when its chroma is at most 0.000004 and its hue
\* is not 0.
C4_InGamutUnchanged ==
  (pc = "done" /\ origin.C # Inf /\ LSRGB_InGamut(OKLCH_LSRGB(origin))) =>
     /\ Abs(ret.L - origin.L) <= 20
     /\ Abs(ret.C - origin.C) <= 20
     /\ HueDistance(ret.H, origin.H) <= 10000

-----------------------------------------------------------------------------
(* Properties of the interpolation and of the polar conversions.           *)

\* The recorded call is a Lerp of a cylindrical / of a Cartesian space.
CylindricalLerp == op \in {"CIELCH.Lerp", "OKLCH.Lerp"}
CartesianLerp ==
  op \in {"SRGB.Lerp", "LSRGB.Lerp", "CIEXYZ.Lerp", "CIELAB.Lerp", "OKLAB.Lerp"}

\* An endpoint is chromatic for the Lerp: its chroma is not below the cutoff.
Chromatic(c) == c.C >= epsLerp

\* The hue from h1 toward h2 along the shorter arc, at parameter a, brought
\* into [0, 360): what C5 says the hue of the result is.
ShorterArcHue(h1, h2, a) ==
  wrapHue(h1 + Mul(a, IF h2 - h1 > 180 * Scale THEN h2 - h1 - FullTurn
                      ELSE IF h2 - h1 < -180 * Scale THEN h2 - h1 + FullTurn
                      ELSE h2 - h1))

\* C5: with both endpoints chromatic the hue of a cylindrical Lerp moves
\* along the shorter arc (v in [0, 1]); hue 350 to hue 10 at v = 0.5 gives 0.
C5_ShorterArc ==
  (CylindricalLerp /\ Chromatic(from) /\ Chromatic(to) /\ v >= 0 /\ v <= Scale) =>
     ret.H = ShorterArcHue(from.H, to.H, v)

\* A hue in the half-open range [0, 360).
HueInRange(h) == h >= 0 /\ h < FullTurn

\* C6: every hue produced is in [0, 360): the hue of a cylindrical Lerp for
\* endpoint hues in [0, 360) and v in [0, 1], the hue of OKLAB.OKLCH and of
\* CIELAB.CIELCH, and the value of wrapHue, which is congruent to its
\* argument modulo 360.
C6_HueInRange ==
  /\ (CylindricalLerp /\ HueInRange(from.H) /\ HueInRange(to.H) /\ v >= 0 /\ v <= Scale)
        => HueInRange(ret.H)
  /\ op \in {"OKLAB.OKLCH", "CIELAB.CIELCH"} => HueInRange(ret.H)
  /\ op = "wrapHue" => HueInRange(ret) /\ (ret - from) % FullTurn = 0

\* x is the linear interpolation x1 + v (x2 - x1) at the recorded v, up to
\* the rounding of the last digit (v is a multiple of one half).
Linear(x, x1, x2) == Abs(2 * (x - x1) - (v \div (Scale \div 2)) * (x2 - x1)) <= 1

\* C7: in a cylindrical Lerp with exactly one achromatic endpoint the hue of
\* the result is the hue of the other endpoint, for every v, and L and C
\* are interpolated linearly; with both endpoints achromatic the result has
\* chroma 0, hue 0 and the linearly interpolated L.
C7_AchromaticRule ==
  CylindricalLerp =>
    /\ (~Chromatic(from) /\ Chromatic(to)) =>
          ret.H = to.H /\ Linear(ret.L, from.L, to.L) /\ Linear(ret.C, from.C, to.C)
    /\ (Chromatic(from) /\ ~Chromatic(to)) =>
          ret.H = from.H /\ Linear(ret.L, from.L, to.L) /\ Linear(ret.C, from.C, to.C)
    /\ (~Chromatic(from) /\ ~Chromatic(to)) =>
          ret.H = 0 /\ ret.C = 0 /\ Linear(ret.L, from.L, to.L)

\* A gray with a hue of its own was blended half way toward a color of
\* another hue, lightness and chroma.
C7_GrayTowardColor ==
  /\ CylindricalLerp /\ ~Chromatic(from) /\ Chromatic(to)
  /\ from.H # to.H /\ from.H # 0 /\ from.L # to.L /\ v = Scale \div 2
  /\ ret.H = to.H /\ ret.C > 0

\* The recorded Lerp starts from a color that a conversion gave the
\* sentinel hue: the chroma was at most the cutoff of the conversion.
FromMarkedAchromatic ==
  /\ CylindricalLerp /\ src # << >>
  /\ \/ op = "OKLCH.Lerp" /\ from.C <= epsOKLCH
     \/ op = "CIELCH.Lerp" /\ from.C <= epsCIELCH

\* C8: a color that OKLAB.OKLCH or CIELAB.CIELCH marked achromatic is
\* powerless in the Lerp of its space: its sentinel hue is no endpoint of
\* the hue blend, so the result has the hue of the other endpoint (the
\* sentinel if that one is achromatic too).
C8_SentinelNeverDrives ==
  FromMarkedAchromatic =>
     ret.H = IF Chromatic(to) THEN to.H ELSE undefinedHue

\* C9 as claimed: c.Lerp(c, v) = c in every space, for every c and v.
C9_Identity ==
  ((CylindricalLerp \/ CartesianLerp) /\ from = to) => ret = from

\* Two colors of one space agree in every component up to the rounding of
\* the last digit.
SameColor(a, b) ==
  DOMAIN a = DOMAIN b /\ \A k \in DOMAIN a : Abs(a[k] - b[k]) <= 1

\* C9: c.Lerp(c, v) is c, up to rounding, for every v in the Cartesian
\* spaces, and in the cylindrical spaces for c of chroma at least 0.000004
\* and hue in [0, 360]; for a cylindrical c of smaller chroma the result is
\* c.L with chroma 0 and hue 0.
C9_IdentityAmended ==
  /\ (CartesianLerp /\ from = to) => SameColor(ret, from)
  /\ (CylindricalLerp /\ from = to /\ from.H >= 0 /\ from.H <= FullTurn) =>
        IF Chromatic(from)
        THEN SameColor(ret, from)
        ELSE SameColor(ret, [L |-> from.L, C |-> 0, H |-> 0]) /\ ret.C = 0 /\ ret.H = 0

\* A chromatic color of non-zero hue was blended with itself beyond its end.
C9_SelfBlend ==
  /\ CylindricalLerp /\ from = to /\ Chromatic(from) /\ from.H # 0
  /\ v > Scale /\ ret = from

\* C10: a.Lerp(b, 0) = a and a.Lerp(b, 1) = b in every space (in the
\* cylindrical spaces: for chromatic a and b).
C10_EndpointsPreserved ==
  ((CartesianLerp \/ (CylindricalLerp /\ Chromatic(from) /\ Chromatic(to))) =>
     /\ v = 0 => ret = from
     /\ v = Scale => ret = to)

-----------------------------------------------------------------------------
(* Properties of the conversions.                                          *)

Channels == {"R", "G", "B"}

\* C13: for an SRGB color c with channels in [0, 1], c.LSRGB().SRGB() is c
\* within 1e-5 in each channel, on either branch of the codec and at the
\* thresholds; and the codec keeps the sign: decoding -x gives minus the
\* decoding of x, encoding -y gives minus the encoding of y.
C13_GammaRoundTrip ==
  op = "SRGB.LSRGB.SRGB" =>
    \A k \in Channels :
      /\ (from[k] >= 0 /\ from[k] <= FScale) => Abs(ret[k] - from[k]) <= 1000
      /\ transferFunc(-from[k]) = -transferFunc(from[k])
      /\ invTransferFunc(-to[k]) = -invTransferFunc(to[k])

\* A color with a channel at the decoding threshold 0.04045, one just above
\* it and a negative one on the power branch went through the round trip.
C13_ThresholdChannels ==
  /\ op = "SRGB.LSRGB.SRGB"
  /\ from = [R |-> 4045000, G |-> 4045001, B |-> -50000000]
  /\ to.R > 0 /\ to.G >= to.R /\ to.B < 0
  /\ Abs(ret.B - from.B) <= 1000

\* C14: for a CIEXYZ color c with non-negative components c.CIELAB().CIEXYZ()
\* is c in each channel (here: within 1e-5), on the cube-root branch and on
\* the linear branch (Y / Yn at most epsilon) alike.
C14_XYZLabRoundTrip ==
  op = "CIEXYZ.CIELAB.CIEXYZ" =>
    \A k \in {"X", "Y", "Z"} : Abs(ret[k] - from[k]) <= 10

\* Two OKLAB / CIELAB colors agree within 1e-5 in each component.
LabClose(a, b) == \A k \in {"L", "A", "B"} : Abs(a[k] - b[k]) <= 10

\* C15: c.OKLCH().OKLAB() is c within 1e-5 in each component for an OKLAB
\* color c, and c.CIELCH().CIELAB() is c within 1e-5 for a CIELAB color c,
\* also for a chroma at or below the achromatic cutoff and on the B axis.
C15_PolarRoundTrip ==
  op \in {"OKLAB.OKLCH.OKLAB", "CIELAB.CIELCH.CIELAB"} => LabClose(ret, from)

\* C16: OKLAB.OKLCH returns hue 0 whenever the chroma is at most 0.000004,
\* CIELAB.CIELCH whenever it is at most 0.0015; both return the chroma
\* sqrt(A^2 + B^2) >= 0 as computed (|A| or |B| on an axis) and L unchanged.
C16_SentinelHue ==
  op \in {"OKLAB.OKLCH", "CIELAB.CIELCH"} =>
    /\ ret.L = from.L
    /\ ret.C = Hypot(from.A, from.B, 0) /\ ret.C >= 0
    /\ from.B = 0 => ret.C = Abs(from.A)
    /\ from.A = 0 => ret.C = Abs(from.B)
    /\ ret.C <= (IF op = "OKLAB.OKLCH" THEN epsOKLCH ELSE epsCIELCH) => ret.H = 0

\* A color on the negative B axis whose chroma is exactly the cutoff of its
\* conversion was converted: its hue is 0, not 270, and its chroma is kept.
C16_CutoffOnBAxis ==
  /\ op \in {"OKLAB.OKLCH", "CIELAB.CIELCH"}
  /\ from.A = 0 /\ from.B < 0
  /\ ret.C = (IF op = "OKLAB.OKLCH" THEN epsOKLCH ELSE epsCIELCH)
  /\ ret.C > 0 /\ ret.H = 0

\* C17: SRGB{1,0,0}.LSRGB() is LSRGB{1,0,0} exactly (the decoding fixes 0
\* and 1), its CIEXYZ() is the first column of linSRGBToXYZ, about
\* (0.41239, 0.21264, 0.01933), and the OKLAB() of that is within Delta E
\* 0.0001 of (0.62796, 0.22486, 0.12585).
C17_RedReference ==
  (op = "SRGB.LSRGB.CIEXYZ.OKLAB" /\ from = RGB(<< Scale, 0, 0 >>)) =>
    /\ transferFunc(FScale) = FScale /\ transferFunc(0) = 0
    /\ src = << RGB(<< Scale, 0, 0 >>) >>
    /\ to = XYZ(<< linSRGBToXYZ[1], linSRGBToXYZ[4], linSRGBToXYZ[7] >>)
    /\ Abs(to.X - 412391) <= 1 /\ Abs(to.Y - 212639) <= 1 /\ Abs(to.Z - 19331) <= 1
    /\ DeltaE([L |-> 627955, A |-> 224863, B |-> 125846], ret) < 100

\* Pure red went through the chain.
C17_RedConverted ==
  /\ op = "SRGB.LSRGB.CIEXYZ.OKLAB" /\ from = RGB(<< Scale, 0, 0 >>)
  /\ ret.L > 0 /\ ret.A > 0 /\ ret.B > 0

\* C18: CIEXYZ.CIELAB gives L = 0 for black, L = 1 for the D50 white, and
\* an L in [0, 1] for every Y from 0 to the Y of the white (here: up to 1e-4,
\* the rounding of 116 * f(Y) - 16).
C18_LightnessNormalized ==
  (op = "CIEXYZ.CIELAB.CIEXYZ" /\ from.Y >= 0 /\ from.Y <= d50[2]) =>
    /\ to.L >= -100 /\ to.L <= Scale + 100
    /\ from = XYZ(<< 0, 0, 0 >>) => Abs(to.L) <= 100
    /\ from = XYZ(d50) => Abs(to.L - Scale) <= 100

-----------------------------------------------------------------------------
(* Further properties of the interpolation.                                *)

-----------------------------------------------------------------------------
(* The outcomes of an iteration of the chroma search.                      *)

\* The candidate c of an iteration is in gamut (its chroma is finite and its
\* linear RGB form has every channel in [0, 1]).
MidInGamut(c) == c.C # Inf /\ LSRGB_InGamut(OKLCH_LSRGB(c))

\* A step of the mapper is an iteration of the search.
Iteration == pc = "loop" /\ iter' = iter + 1

\* C20 as claimed: an iteration (1) raises the lower bound to the midpoint
\* if the midpoint is in gamut; (2) else returns the clipped midpoint if
\* its Delta E is below JND and within eps of it; (3) else lowers the upper
\* bound to the midpoint.  The lower bound is raised to in-gamut midpoints
\* only.
C20_ThreeOutcomes ==
  [][(Iteration /\ cmax # Inf) =>
       /\ current'.C = Midpoint
       /\ IF MidInGamut(current')
          THEN cmin' = current'.C /\ cmax' = cmax /\ pc' = "loop"
          ELSE IF E' < JND /\ JND - E' < eps
          THEN pc' = "done" /\ ret' = OKLAB_OKLCH(LSRGB_OKLAB(clipped'))
          ELSE cmax' = current'.C /\ cmin' = cmin /\ pc' = "loop"
       /\ cmin' # cmin => MidInGamut(current')]_vars

\* C20: an iteration has exactly one of four outcomes, decided in this
\* order.  (1) If minInGamut is set and the midpoint is in gamut, the lower
\* bound is raised to the midpoint.  Otherwise the midpoint is clipped and E
\* is its Delta E to its clip: (2) if E < JND and JND - E < eps, the clipped
\* color's OKLCH form is returned; (3) if E < JND otherwise, the lower bound
\* is raised to the midpoint, in gamut or not; (4) if E is not below JND,
\* the upper bound is lowered to the midpoint.  Whenever the lower bound is
\* raised, minInGamut becomes whether the midpoint is in gamut.
C20_FourOutcomes ==
  [][Iteration =>
       /\ current'.C = (IF cmax = Inf THEN Inf ELSE Midpoint)
       /\ IF minInGamut /\ MidInGamut(current')
          THEN /\ cmin' = current'.C /\ cmax' = cmax /\ pc' = "loop"
               /\ minInGamut' /\ clipped' = clipped /\ E' = E
          ELSE IF E' < JND /\ JND - E' < eps
          THEN /\ pc' = "done" /\ ret' = OKLAB_OKLCH(LSRGB_OKLAB(clipped'))
               /\ cmin' = cmin /\ cmax' = cmax
          ELSE IF E' < JND
          THEN /\ cmin' = current'.C /\ cmax' = cmax /\ pc' = "loop"
               /\ minInGamut' = MidInGamut(current')
          ELSE /\ cmax' = current'.C /\ cmin' = cmin /\ pc' = "loop"
               /\ minInGamut' = minInGamut]_vars

\* The lower bound was raised to a midpoint that is not in gamut, its clip
\* being within JND of it.
C20_RaisedToOutOfGamut ==
  /\ pc = "loop" /\ iter > 0 /\ cmax # Inf
  /\ cmin = current.C /\ ~MidInGamut(current) /\ ~minInGamut
  /\ E < JND


-----------------------------------------------------------------------------
(* Properties of the pipelines.                                            *)

Pipelines == {"LerpSRGB", "LerpLSRGB", "LerpCIEXYZ", "LerpOKLAB", "LerpOKLCH"}

\* The channels of the SRGB color c lie in [0, 1].
SRGBClipped(c) ==
  /\ 0 <= c.R /\ c.R <= Scale
  /\ 0 <= c.G /\ c.G <= Scale
  /\ 0 <= c.B /\ c.B <= Scale

\* The result p of RGBA has r, g, b in [0, 0xffff] and alpha 0xffff.
RGBAInRange(p) ==
  /\ 0 <= p.R /\ p.R <= MaxChannel
  /\ 0 <= p.G /\ p.G <= MaxChannel
  /\ 0 <= p.B /\ p.B <= MaxChannel
  /\ p.A = MaxChannel

\* C11: each of the five pipelines, for any two colors and any v, returns a
\* color whose gamma-encoded channels lie in [0, 1], and whose RGBA gives
\* r, g, b in [0, 0xffff] and alpha 0xffff, whatever the alpha of the inputs.
C11_PipelineClipped ==
  op \in Pipelines => SRGBClipped(ret) /\ RGBAInRange(src[1])

-----------------------------------------------------------------------------
(* Properties of concurrent calls.                                         *)

\* C12: calls that run concurrently without synchronization each return what
\* they return when run alone, and the package-level matrices and white
\* point keep the values of their initialization throughout.
C12_ConcurrentAsAlone ==
  /\ pkg = Package
  /\ \A g \in Goroutines : gor[g].pc = "done" => gor[g].ret = gor[g].alone

\* A pipeline call and a gamut-mapping call have both returned, each having
\* taken steps while the other was in the middle of its own.
C12_InterleavedCallsReturned ==
  /\ gor["g1"].pc = "done" /\ gor["g1"].call = "LerpOKLAB" /\ gor["g1"].overlapped
  /\ gor["g2"].pc = "done" /\ gor["g2"].call = "OKLCH.GamutMappedLSRGB"
  /\ gor["g2"].overlapped

-----------------------------------------------------------------------------
(* Properties of the search interval.                                      *)

\* C21: for an input with chroma C >= 0, at the start of every iteration of
\* the search 0 <= cmin <= cmax <= C, the candidate the iteration evaluates
\* has its chroma in [cmin, cmax], and its lightness and hue are those of
\* the input.
C21_BoundsAndCandidate ==
  [][(Iteration /\ origin.C >= 0) =>
       /\ 0 <= cmin /\ cmin <= cmax /\ cmax <= origin.C
       /\ cmin <= current'.C /\ current'.C <= cmax
       /\ current'.L = origin.L /\ current'.H = origin.H]_vars

\* A search has moved both of its bounds: the lower one above 0, the upper
\* one below the chroma of the input.
C21_BothBoundsMoved ==
  /\ pc = "loop" /\ iter > 1
  /\ 0 < cmin /\ cmax < origin.C
  /\ current.L = origin.L /\ current.H = origin.H

-----------------------------------------------------------------------------
(* Properties of the re-encoding of 16-bit channels.                       *)

\* RGBA reported the channels of the color c, and the alpha 0xffff.
SameChannels(c, p) ==
  p.R = c.R /\ p.G = c.G /\ p.B = c.B /\ p.A = MaxChannel

\* C22: for every color c with 16-bit channels, ColorToSRGB(c).RGBA() returns
\* the r, g, b of c exactly, and the alpha 0xffff whatever the alpha of c;
\* and so does RGBA of LerpSRGB(c, c, v).
C22_ChannelsLossless ==
  op \in {"ColorToSRGB.RGBA", "LerpSRGB.same"} => SameChannels(from, src[1])

\* An odd channel value, with the other channels different from it and an
\* alpha below 0xffff, went through ColorToSRGB and RGBA.
C22_OddChannelReencoded ==
  /\ op = "ColorToSRGB.RGBA"
  /\ from.R % 2 = 1 /\ from.G # from.R /\ from.B # from.R /\ from.A < MaxChannel
  /\ src[1].R = from.R
=============================================================================
